---- MODULE Spec2Model ----
(***************************************************************************)
(* Model of src/src/lib.rs: pub fn hash(input: &[u8]) -> [u32; 5], the     *)
(* SHA-1 digest of a byte slice.                                           *)
(*                                                                         *)
(* Number representation.  TLC integers are 32-bit signed, so a u32 is     *)
(* kept as a pair <<hi, lo>> of 16-bit halves (value hi * 2^16 + lo) and   *)
(* a usize / u64 as a big-endian sequence of bytes.  Every operation on    *)
(* them is computed at the width the Rust type has.                        *)
(***************************************************************************)
EXTENDS Integers, Sequences, FiniteSets, TLC

(***************************************************************************)
(* u32 arithmetic                                                          *)
(***************************************************************************)
W(hi, lo) == <<hi, lo>>

Pow2(k) == 2 ^ k

\* bit i of a small natural
Bit(x, i) == (x \div Pow2(i)) % 2

\* 4-bit tables of the bitwise operators, combined below to 16 and 32 bits
XorNib == [x \in 0..15 |-> [y \in 0..15 |->
             ((Bit(x, 0) + Bit(y, 0)) % 2)
           + ((Bit(x, 1) + Bit(y, 1)) % 2) * 2
           + ((Bit(x, 2) + Bit(y, 2)) % 2) * 4
           + ((Bit(x, 3) + Bit(y, 3)) % 2) * 8]]

AndNib == [x \in 0..15 |-> [y \in 0..15 |->
             (Bit(x, 0) * Bit(y, 0))
           + (Bit(x, 1) * Bit(y, 1)) * 2
           + (Bit(x, 2) * Bit(y, 2)) * 4
           + (Bit(x, 3) * Bit(y, 3)) * 8]]

Nib(x, i) == (x \div Pow2(4 * i)) % 16

Xor16(x, y) == (XorNib[Nib(x, 3)][Nib(y, 3)] * 4096) + (XorNib[Nib(x, 2)][Nib(y, 2)] * 256)
             + (XorNib[Nib(x, 1)][Nib(y, 1)] * 16) + XorNib[Nib(x, 0)][Nib(y, 0)]

And16(x, y) == (AndNib[Nib(x, 3)][Nib(y, 3)] * 4096) + (AndNib[Nib(x, 2)][Nib(y, 2)] * 256)
             + (AndNib[Nib(x, 1)][Nib(y, 1)] * 16) + AndNib[Nib(x, 0)][Nib(y, 0)]

\* u32 ^ u32
BitXor(x, y) == W(Xor16(x[1], y[1]), Xor16(x[2], y[2]))

\* u32 & u32
BitAnd(x, y) == W(And16(x[1], y[1]), And16(x[2], y[2]))

\* u32 | u32
BitOr(x, y) == W(x[1] + y[1] - And16(x[1], y[1]), x[2] + y[2] - And16(x[2], y[2]))

\* !u32
BitNot(x) == W(65535 - x[1], 65535 - x[2])

\* u32::rotate_left by k < 16 bits
RotlSmall(x, k) ==
    W(((x[1] * Pow2(k)) % 65536) + (x[2] \div Pow2(16 - k)),
      ((x[2] * Pow2(k)) % 65536) + (x[1] \div Pow2(16 - k)))

\* u32::rotate_left
rotate_left(x, k) ==
    IF k % 32 >= 16 THEN RotlSmall(W(x[2], x[1]), (k % 32) - 16)
                    ELSE RotlSmall(x, k % 32)

\* u32::wrapping_add
wrapping_add(x, y) ==
    LET lo == x[2] + y[2]
        hi == x[1] + y[1] + (lo \div 65536)
    IN  W(hi % 65536, lo % 65536)

\* (byte as u32) << s, for s in {0, 8, 16, 24}
ShlByte(byte, s) ==
    IF s >= 16 THEN W(byte * Pow2(s - 16), 0) ELSE W(0, byte * Pow2(s))

(***************************************************************************)
(* usize / u64 arithmetic: a number is its base-256 digits, least          *)
(* significant first, as many digits as the type has bytes.                *)
(***************************************************************************)
RECURSIVE Digits(_, _)
\* the k-byte unsigned integer with value n (n < 2^31)
Digits(n, k) == IF k = 0 THEN <<>> ELSE <<n % 256>> \o Digits(n \div 256, k - 1)

\* usize * 8 as the hardware computes it: the low bits of the product
wrapping_mul8(x) ==
    [i \in 1..Len(x) |-> ((x[i] * 8) % 256) + (IF i = 1 THEN 0 ELSE x[i - 1] \div 32)]

\* whether usize * 8 overflows the type
overflows_mul8(x) == Len(x) > 0 /\ x[Len(x)] \div 32 # 0

\* `usize as u64`: zero-extension (or truncation) to 8 bytes
as_u64(x) == [i \in 1..8 |-> IF i <= Len(x) THEN x[i] ELSE 0]

\* variant of to_be_bytes: least significant byte first
to_le_bytes(x) == x

\* u64::to_be_bytes: most significant byte first
to_be_bytes(x) == [i \in 1..Len(x) |-> x[Len(x) + 1 - i]]

\* input.len() * 8 (line 26) panics in a build with overflow checks when the
\* product overflows; otherwise it is the wrapped product
mul8_panics(x, checks) == checks /\ overflows_mul8(x)

(***************************************************************************)
(* Padding (lines 36-45)                                                   *)
(***************************************************************************)
Zeros(k) == [i \in 1..k |-> 0]

\* variant of ZeroFill: the first branch one byte short
ZeroFillOffByOne(diff) == IF diff < 56 THEN Zeros(55 - diff) ELSE Zeros(120 - diff)

\* variant of ZeroFill: the second branch fills the current frame only
ZeroFillOneFrame(diff) == IF diff < 56 THEN Zeros(56 - diff) ELSE Zeros(64 - diff)

\* the zero fill after the 0x80 byte, from diff = input.len() % 64
ZeroFill(diff) == IF diff < 56 THEN Zeros(56 - diff) ELSE Zeros(120 - diff)

\* variant of PadMessage: diff taken before the 0x80 byte is pushed
PadMessageDiffFirst(msg, bitlen) ==
    LET diff == Len(msg) % 64
    IN  Append(msg, 128)
            \o (IF diff < 56 THEN Zeros(56 - diff) ELSE Zeros(120 - diff))
            \o [i \in 1..8 |-> bitlen[9 - i]]

\* the Vec `input` after lines 37-45, for a message and its bit length
PadMessage(msg, bitlen) ==
    LET pushed == Append(msg, 128)
        diff   == Len(pushed) % 64
    IN  pushed \o ZeroFill(diff) \o to_be_bytes(as_u64(bitlen))

\* input.chunks_exact(64): the number of chunks, and the i-th (0-based)
NumChunks(v) == Len(v) \div 64
Chunk(v, i) == SubSeq(v, 64 * i + 1, 64 * i + 64)

(***************************************************************************)
(* Message schedule (lines 49-58).  seq is declared once, outside the      *)
(* block loop, and overwritten in place; index t of the code is t + 1 here.*)
(* TLC suspends an operator's arguments until first use, and a chain of 64  *)
(* suspended iterations exceeds its stack: every loop below also tests its *)
(* accumulator (sq = <<>>, r = <<>>: never true), which evaluates each     *)
(* iteration before the next one starts.                                   *)
(***************************************************************************)
\* lines 50-53: seq[t] from block bytes 4t .. 4t+3
LoadWord(block, t) ==
    BitOr(BitOr(BitOr(ShlByte(block[4 * t + 1], 24), ShlByte(block[4 * t + 2], 16)),
                ShlByte(block[4 * t + 3], 8)),
          ShlByte(block[4 * t + 4], 0))

RECURSIVE FillWords(_, _, _)
\* for t in 0..16 (lines 49-54)
FillWords(sq, block, t) ==
    IF t >= 16 \/ sq = <<>> THEN sq
    ELSE FillWords([sq EXCEPT ![t + 1] = LoadWord(block, t)], block, t + 1)

\* variant of ExpandWord: the recurrence without its rotation
ExpandWordNoRotate(sq, t) ==
    BitXor(BitXor(BitXor(sq[t - 3 + 1], sq[t - 8 + 1]), sq[t - 14 + 1]), sq[t - 16 + 1])

\* line 57
ExpandWord(sq, t) ==
    rotate_left(BitXor(BitXor(BitXor(sq[t - 3 + 1], sq[t - 8 + 1]), sq[t - 14 + 1]),
                       sq[t - 16 + 1]), 1)

RECURSIVE ExpandWords(_, _)
\* for t in 16..80 (lines 56-58)
ExpandWords(sq, t) ==
    IF t >= 80 \/ sq = <<>> THEN sq
    ELSE ExpandWords([sq EXCEPT ![t + 1] = ExpandWord(sq, t)], t + 1)

Schedule(sq, block) == ExpandWords(FillWords(sq, block, 0), 16)

(***************************************************************************)
(* Rounds (lines 66-124).  r = <<a, b, c, d, e>>.                          *)
(***************************************************************************)
K0 == W(\h5A82, \h7999)
K1 == W(\h6ED9, \hEBA1)
K2 == W(\h8F1B, \hBCDC)
K3 == W(\hCA62, \hC1D6)

\* (b & c) | (!b & d)
F0(b, c, d) == BitOr(BitAnd(b, c), BitAnd(BitNot(b), d))
\* b ^ c ^ d
F1(b, c, d) == BitXor(BitXor(b, c), d)
\* (b & c) | (b & d) | (c & d)
F2(b, c, d) == BitOr(BitOr(BitAnd(b, c), BitAnd(b, d)), BitAnd(c, d))
\* b ^ c ^ d
F3(b, c, d) == BitXor(BitXor(b, c), d)

\* temp = a.rotate_left(5) + f + e + seq[t] + K, then the register shift
Step(r, f, w, k) ==
    LET temp == wrapping_add(wrapping_add(wrapping_add(wrapping_add(
                    rotate_left(r[1], 5), f), r[5]), w), k)
    IN  <<temp, r[1], rotate_left(r[2], 30), r[3], r[4]>>

Round0(r, w) == Step(r, F0(r[2], r[3], r[4]), w, K0)
Round1(r, w) == Step(r, F1(r[2], r[3], r[4]), w, K1)
\* variant of Round2: the parity function of the neighbouring phases
Round2Parity(r, w) == Step(r, F1(r[2], r[3], r[4]), w, K2)

Round2(r, w) == Step(r, F2(r[2], r[3], r[4]), w, K2)
Round3(r, w) == Step(r, F3(r[2], r[3], r[4]), w, K3)

RECURSIVE Loop0(_, _, _)
\* for t in 0..20
Loop0(r, sq, t) == IF t >= 20 \/ r = <<>> THEN r ELSE Loop0(Round0(r, sq[t + 1]), sq, t + 1)

RECURSIVE Loop1(_, _, _)
\* for t in 20..40
Loop1(r, sq, t) == IF t >= 40 \/ r = <<>> THEN r ELSE Loop1(Round1(r, sq[t + 1]), sq, t + 1)

RECURSIVE Loop2(_, _, _)
\* for t in 40..60
Loop2(r, sq, t) == IF t >= 60 \/ r = <<>> THEN r ELSE Loop2(Round2(r, sq[t + 1]), sq, t + 1)

RECURSIVE Loop3(_, _, _)
\* for t in 60..80
Loop3(r, sq, t) == IF t >= 80 \/ r = <<>> THEN r ELSE Loop3(Round3(r, sq[t + 1]), sq, t + 1)

\* lines 126-130
AddBack(h, r) == [i \in 1..5 |-> wrapping_add(h[i], r[i])]

\* variant of InitialHash: the last word mistyped
InitialHashTypo == <<W(\h6745, \h2301), W(\hEFCD, \hAB89), W(\h98BA, \hDCFE),
                     W(\h1032, \h5476), W(\hC3D2, \hE1F1)>>

\* line 33
InitialHash == <<W(\h6745, \h2301), W(\hEFCD, \hAB89), W(\h98BA, \hDCFE),
                 W(\h1032, \h5476), W(\hC3D2, \hE1F0)>>

\* line 34: [0u32; 80]
ZeroSeq == [t \in 1..80 |-> W(0, 0)]

(***************************************************************************)
(* Inputs                                                                  *)
(***************************************************************************)
\* the messages of the crate's tests (lines 145, 159, 167, 175)
LazyDog ==
    <<84, 104, 101, 32, 113, 117, 105, 99, 107, 32, 98, 114, 111, 119, 110,
      32, 102, 111, 120, 32, 106, 117, 109, 112, 115, 32, 111, 118, 101,
      114, 32, 116, 104, 101, 32, 108, 97, 122, 121, 32, 100, 111, 103>>
LazyCog ==
    <<84, 104, 101, 32, 113, 117, 105, 99, 107, 32, 98, 114, 111, 119, 110,
      32, 102, 111, 120, 32, 106, 117, 109, 112, 115, 32, 111, 118, 101,
      114, 32, 116, 104, 101, 32, 108, 97, 122, 121, 32, 99, 111, 103>>
EmptyString == <<>>
PaddingText ==
    <<97, 98, 99, 100, 101, 102, 103, 104, 105, 106, 107, 108, 109, 110,
      111, 112, 113, 114, 115, 116, 117, 118, 119, 120, 121, 122, 97, 98,
      99, 100, 101, 102, 103, 104, 105, 106, 107, 108, 109, 110, 111, 112,
      113, 114, 115, 116, 117, 118, 119, 120, 121, 122, 61, 61, 61, 61, 61,
      61, 61, 61>>

\* the longest generated message, in bytes
MaxLen == 130

\* byte i of a generated message is (stride * i) % 256: stride 0 gives zero
\* bytes, stride 128 gives 0x80 and 0x00 alternating, stride 37 all values
Strides == {0, 37, 128}

Fill(n, stride) == [i \in 1..n |-> (stride * i) % 256]

Messages ==
    {LazyDog, LazyCog, EmptyString, PaddingText}
        \cup {Fill(n, stride) : n \in 0..MaxLen, stride \in Strides}

(***************************************************************************)
(* State of one call of hash                                               *)
(***************************************************************************)
VARIABLES
    message,          \* the parameter input: &[u8]
    len,              \* input.len(), a usize
    usize_bytes,      \* the build: bytes of a usize on the target
    overflow_checks,  \* the build: whether arithmetic overflow panics
    original_length,  \* line 26
    length_field,     \* the 8 bytes line 45 appends
    input,            \* the Vec of line 37
    hash,             \* line 33
    seq,              \* line 34
    a, b, c, d, e,    \* lines 28-32
    blk,              \* chunks the iterator of line 48 has yielded and finished
    fed,              \* history: the bytes of the chunks yielded so far, in order
    pc,               \* position in the function
    result            \* the returned array

vars == <<message, len, usize_bytes, overflow_checks, original_length, length_field,
          input, hash, seq, a, b, c, d, e, blk, fed, pc, result>>

regs == <<a, b, c, d, e>>

\* a local that is declared and not yet assigned (let mut a;), or no value
None == <<>>

\* the state at entry, for a message and a build
Entry(msg, n, ub, oc) ==
    /\ message = msg
    /\ len = n
    /\ usize_bytes = ub
    /\ overflow_checks = oc
    /\ original_length = None
    /\ length_field = None
    /\ input = None
    /\ hash = None
    /\ seq = None
    /\ a = None /\ b = None /\ c = None /\ d = None /\ e = None
    /\ blk = 0
    /\ fed = <<>>
    /\ pc = "start"
    /\ result = None

\* hash is called with any message, on a 64-bit target
Init == \E msg \in Messages : Entry(msg, Digits(Len(msg), 8), 8, FALSE)

\* lines 26-45: the bit length, the hash and schedule arrays, the padded Vec
Pad ==
    /\ pc = "start"
    /\ IF mul8_panics(len, overflow_checks)
       THEN /\ pc' = "panicked"
            /\ UNCHANGED <<original_length, hash, seq, input, length_field>>
       ELSE /\ original_length' = wrapping_mul8(len)
            /\ hash' = InitialHash
            /\ seq' = ZeroSeq
            /\ length_field' = to_be_bytes(as_u64(original_length'))
            /\ input' = PadMessage(message, original_length')
            /\ pc' = "loop"
    /\ UNCHANGED <<message, len, usize_bytes, overflow_checks, a, b, c, d, e, blk, fed,
                   result>>

\* lines 48-58: the iterator yields the next chunk and the schedule is built
NextBlock ==
    /\ pc = "loop"
    /\ blk < NumChunks(input)
    /\ seq' = Schedule(seq, Chunk(input, blk))
    /\ fed' = fed \o Chunk(input, blk)
    /\ pc' = "load"
    /\ UNCHANGED <<message, len, usize_bytes, overflow_checks, original_length,
                   length_field, input, hash, a, b, c, d, e, blk, result>>

\* lines 60-64
LoadWorking ==
    /\ pc = "load"
    /\ a' = hash[1] /\ b' = hash[2] /\ c' = hash[3] /\ d' = hash[4] /\ e' = hash[5]
    /\ pc' = "rounds0"
    /\ UNCHANGED <<message, len, usize_bytes, overflow_checks, original_length,
                   length_field, input, hash, seq, blk, fed, result>>

\* the working variables become r, and control moves to `to`
SetRegs(r, to) ==
    /\ a' = r[1] /\ b' = r[2] /\ c' = r[3] /\ d' = r[4] /\ e' = r[5]
    /\ pc' = to
    /\ UNCHANGED <<message, len, usize_bytes, overflow_checks, original_length,
                   length_field, input, hash, seq, blk, fed, result>>

\* lines 66-79
Rounds0 == pc = "rounds0" /\ SetRegs(Loop0(regs, seq, 0), "rounds1")

\* lines 81-94
Rounds1 == pc = "rounds1" /\ SetRegs(Loop1(regs, seq, 20), "rounds2")

\* lines 96-109
Rounds2 == pc = "rounds2" /\ SetRegs(Loop2(regs, seq, 40), "rounds3")

\* lines 111-124
Rounds3 == pc = "rounds3" /\ SetRegs(Loop3(regs, seq, 60), "add")

\* lines 126-131: the state is updated and the block is finished
AddWorking ==
    /\ pc = "add"
    /\ hash' = AddBack(hash, regs)
    /\ blk' = blk + 1
    /\ pc' = "loop"
    /\ UNCHANGED <<message, len, usize_bytes, overflow_checks, original_length,
                   length_field, input, seq, a, b, c, d, e, fed, result>>

\* line 133, once chunks_exact is exhausted; a remainder shorter than 64
\* bytes is never yielded
Return ==
    /\ pc = "loop"
    /\ blk >= NumChunks(input)
    /\ result' = hash
    /\ pc' = "done"
    /\ UNCHANGED <<message, len, usize_bytes, overflow_checks, original_length,
                   length_field, input, hash, seq, a, b, c, d, e, blk, fed>>

Next ==
    \/ Pad
    \/ NextBlock
    \/ LoadWorking
    \/ Rounds0
    \/ Rounds1
    \/ Rounds2
    \/ Rounds3
    \/ AddWorking
    \/ Return

Spec == Init /\ [][Next]_vars

(***************************************************************************)
(* The length computation of lines 26 and 45 alone, for lengths too large  *)
(* to build a message of, on every target and build.  message is not       *)
(* modelled here (None): only its length is.                               *)
(***************************************************************************)
\* bytes of a usize on 32-bit and 64-bit targets
TargetBytes == {4, 8}

\* digits of the sampled lengths: the top digit keeps input.len() within
\* isize::MAX, as every Rust slice is
TopDigits == {0, 1, 15, 16, 31, 32, 127}
LowDigits == {0, 255}

LenSamples(ub) ==
    {[i \in 1..ub |-> IF i = ub THEN top ELSE low[i]] :
         top \in TopDigits, low \in [1..(ub - 1) -> LowDigits]}

InitLen ==
    \E ub \in TargetBytes, oc \in BOOLEAN :
        \E n \in LenSamples(ub) : Entry(None, n, ub, oc)

\* line 26
Multiply ==
    /\ pc = "start"
    /\ IF mul8_panics(len, overflow_checks)
       THEN pc' = "panicked" /\ UNCHANGED original_length
       ELSE pc' = "multiplied" /\ original_length' = wrapping_mul8(len)
    /\ UNCHANGED <<message, len, usize_bytes, overflow_checks, length_field, input, hash,
                   seq, a, b, c, d, e, blk, fed, result>>

\* line 45
WriteLength ==
    /\ pc = "multiplied"
    /\ length_field' = to_be_bytes(as_u64(original_length))
    /\ pc' = "done"
    /\ UNCHANGED <<message, len, usize_bytes, overflow_checks, original_length, input,
                   hash, seq, a, b, c, d, e, blk, fed, result>>

NextLen ==
    \/ Multiply
    \/ WriteLength

SpecLen == InitLen /\ [][NextLen]_vars

(***************************************************************************)
(* Reference: SHA-1 as the specification and FIPS 180 state it             *)
(***************************************************************************)
\* big-endian 32-bit value of block bytes 4t .. 4t+3
RefWord(block, t) ==
    W((block[4 * t + 1] * 256) + block[4 * t + 2],
      (block[4 * t + 3] * 256) + block[4 * t + 4])

RECURSIVE RefExtend(_)
\* w[t] = rotl(w[t-3] ^ w[t-8] ^ w[t-14] ^ w[t-16], 1), for t = Len(ws) up to 79
RefExtend(ws) ==
    IF Len(ws) >= 80 THEN ws
    ELSE LET t == Len(ws)
         IN  RefExtend(Append(ws,
                 rotate_left(BitXor(BitXor(ws[t - 2], ws[t - 7]),
                                    BitXor(ws[t - 13], ws[t - 15])), 1)))

\* the 80-word schedule of one block, from the block alone
RefSchedule(block) == RefExtend([t \in 1..16 |-> RefWord(block, t - 1)])

\* the nonlinear function and the constant of round t
RefF(t, x, y, z) ==
    CASE t \in 0..19  -> BitOr(BitAnd(x, y), BitAnd(BitNot(x), z))
      [] t \in 20..39 -> BitXor(x, BitXor(y, z))
      [] t \in 40..59 -> BitOr(BitAnd(x, y), BitOr(BitAnd(x, z), BitAnd(y, z)))
      [] t \in 60..79 -> BitXor(x, BitXor(y, z))

RefK(t) ==
    CASE t \in 0..19  -> W(\h5A82, \h7999)
      [] t \in 20..39 -> W(\h6ED9, \hEBA1)
      [] t \in 40..59 -> W(\h8F1B, \hBCDC)
      [] t \in 60..79 -> W(\hCA62, \hC1D6)

\* one round on r = <<a, b, c, d, e>>
RefRound(r, t, w) ==
    LET sum == wrapping_add(rotate_left(r[1], 5),
                   wrapping_add(RefF(t, r[2], r[3], r[4]),
                       wrapping_add(r[5], wrapping_add(w, RefK(t)))))
    IN  <<sum, r[1], rotate_left(r[2], 30), r[3], r[4]>>

RECURSIVE RefRounds(_, _, _, _)
\* rounds from .. to - 1
RefRounds(r, ws, from, to) ==
    IF from >= to \/ r = <<>> THEN r
    ELSE RefRounds(RefRound(r, from, ws[from + 1]), ws, from + 1, to)

RefCompress(h, block) ==
    LET ws == RefSchedule(block)
        r  == RefRounds(RefRounds(h, ws, 0, 40), ws, 40, 80)
    IN  [i \in 1..5 |-> wrapping_add(h[i], r[i])]

\* the 64-bit big-endian encoding of v < 2^31
RefBE64(v) == [i \in 1..8 |-> IF i <= 4 THEN 0 ELSE (v \div (256 ^ (8 - i))) % 256]

\* the message, 0x80, the fewest zero bytes that bring the length to 56 mod 64,
\* and the bit length
RefPad(msg) ==
    msg \o <<128>> \o Zeros((119 - (Len(msg) % 64)) % 64) \o RefBE64(8 * Len(msg))

RECURSIVE RefBlocks(_, _, _)
RefBlocks(h, v, i) ==
    IF 64 * i >= Len(v) \/ h = <<>> THEN h
    ELSE RefBlocks(RefCompress(h, SubSeq(v, 64 * i + 1, 64 * i + 64)), v, i + 1)

RefSha1(msg) ==
    RefBlocks(<<W(\h6745, \h2301), W(\hEFCD, \hAB89), W(\h98BA, \hDCFE),
                W(\h1032, \h5476), W(\hC3D2, \hE1F0)>>, RefPad(msg), 0)

\* the published digests (specification section 8; lines 146-168)
LazyDogDigest ==
    <<W(\h2fd4, \he1c6), W(\h7a2d, \h28fc), W(\hed84, \h9ee1), W(\hbb76, \he739),
      W(\h1b93, \heb12)>>
LazyCogDigest ==
    <<W(\hde9f, \h2c7f), W(\hd25e, \h1b3a), W(\hfad3, \he85a), W(\h0bd1, \h7d9b),
      W(\h100d, \hb4b3)>>
EmptyDigest ==
    <<W(\hda39, \ha3ee), W(\h5e6b, \h4b0d), W(\h3255, \hbfef), W(\h9560, \h1890),
      W(\hafd8, \h0709)>>

\* the length of the message and the frames of the compressed stream
MsgLen == Len(message)
Frame(i) == SubSeq(fed, 64 * i + 1, 64 * i + 64)

(***************************************************************************)
(* Claims                                                                  *)
(***************************************************************************)
\* C1: hash returns the published SHA-1 digests of "", of "The quick brown
\* fox jumps over the lazy dog" and of "... lazy cog", and on these inputs
\* agrees word for word with the reference SHA-1.
C1_KnownVectors ==
    pc = "done" =>
        /\ message = EmptyString => result = EmptyDigest /\ result = RefSha1(message)
        /\ message = LazyDog => result = LazyDogDigest /\ result = RefSha1(message)
        /\ message = LazyCog => result = LazyCogDigest /\ result = RefSha1(message)

C1_Witness == pc = "done" /\ message = LazyDog /\ result = LazyDogDigest

\* C2: whenever (n + 1) mod 64 is non-zero and <= 56, the length field goes
\* into the frame that holds the terminator: exactly floor(n / 64) + 1 blocks
\* are compressed.  (Violated by the code at n mod 64 = 55.)
C2_SingleFinalFrame ==
    (pc = "done" /\ (MsgLen + 1) % 64 \in 1..56) => blk = (MsgLen \div 64) + 1

\* C4: for every input shorter than 2^61 bytes the length field holds the
\* exact value 8 * n: the multiplication of line 26 never wraps silently.
\* (Violated by the code where usize has 32 bits.)
RefDouble(x) ==
    [i \in 1..Len(x) |-> ((2 * x[i]) % 256) + (IF i = 1 THEN 0 ELSE x[i - 1] \div 128)]

\* 8 * n as an exact 64-bit number, most significant byte first, for n < 2^61
RefBitLength(n) ==
    LET wide  == [i \in 1..8 |-> IF i <= Len(n) THEN n[i] ELSE 0]
        eight == RefDouble(RefDouble(RefDouble(wide)))
    IN  [i \in 1..8 |-> eight[9 - i]]

Below2Pow61(n) == Len(n) < 8 \/ n[8] < 32

C4_LengthNeverWraps ==
    (pc = "done" /\ Below2Pow61(len)) => length_field = RefBitLength(len)

C6_MultipleOf64 ==
    (pc = "done" /\ MsgLen % 64 = 0) =>
        /\ blk = (MsgLen \div 64) + 1
        /\ Len(fed) = 64 * blk
        /\ SubSeq(fed, 1, MsgLen) = message
        /\ Frame(blk - 1) = <<128>> \o Zeros(55) \o RefBE64(8 * MsgLen)

C6_Witness == pc = "done" /\ MsgLen = 128 /\ blk = 3 /\ message[1] # 0

\* C7: the bytes hash compresses are the n message bytes in order, one 0x80
\* at offset n, then only zero bytes, then 8 * n as a 64-bit big-endian
\* integer in the final 8 bytes of the last frame.
C7_PaddedLayout ==
    pc = "done" =>
        /\ Len(fed) % 64 = 0
        /\ Len(fed) >= MsgLen + 9
        /\ SubSeq(fed, 1, MsgLen) = message
        /\ fed[MsgLen + 1] = 128
        /\ \A i \in (MsgLen + 2)..(Len(fed) - 8) : fed[i] = 0
        /\ SubSeq(fed, Len(fed) - 7, Len(fed)) = RefBE64(8 * MsgLen)

C7_Witness ==
    /\ pc = "done"
    /\ MsgLen = 100
    /\ fed[MsgLen + 1] = 128
    /\ SubSeq(fed, 121, 128) = <<0, 0, 0, 0, 0, 0, 3, 32>>

\* C8: each block is compressed as the reference prescribes: a..e start as
\* the state, rounds t = 0..79 use the function and constant of their phase,
\* and the working variables are added into the state modulo 2^32 after
\* round 79; the state changes at no other step.
C8_Compression ==
    [][/\ pc = "load" => regs' = hash
       /\ pc = "rounds0" => regs' = RefRounds(regs, seq, 0, 20)
       /\ pc = "rounds1" => regs' = RefRounds(regs, seq, 20, 40)
       /\ pc = "rounds2" => regs' = RefRounds(regs, seq, 40, 60)
       /\ pc = "rounds3" => regs' = RefRounds(regs, seq, 60, 80)
       /\ pc = "add" => hash' = [i \in 1..5 |-> wrapping_add(hash[i], regs[i])]
       /\ pc \notin {"start", "add"} => hash' = hash]_vars

C8_Witness == pc = "loop" /\ blk = 2 /\ hash # InitialHash

\* C9: words 0..15 of the schedule are the block's bytes read big-endian and
\* words 16..79 follow the recurrence, all from the current block alone: no
\* word left from the previous block is used by the rounds.
C9_Schedule ==
    [][/\ (pc = "loop" /\ pc' = "load") => seq' = RefSchedule(Chunk(input, blk))
       /\ pc \in {"load", "rounds0", "rounds1", "rounds2", "rounds3", "add"} => seq' = seq]_vars

C9_Witness == pc = "rounds0" /\ blk = 1 /\ seq # ZeroSeq

\* C10: the padded buffer's length is a positive multiple of 64, so the
\* 64-byte chunk iteration drops nothing: the chunks compressed are the
\* padded buffer, in order and whole.
C10_NoTrailingBytes ==
    pc \notin {"start", "panicked"} =>
        /\ Len(input) > 0
        /\ Len(input) % 64 = 0
        /\ fed = SubSeq(input, 1, Len(fed))
        /\ pc = "done" => fed = input /\ 64 * blk = Len(input)

C10_Witness == pc = "done" /\ MsgLen = 56 /\ Len(input) = 128 /\ fed = input

====
